---------------------------- MODULE Spec2Model ----------------------------
(***************************************************************************)
(* The corporate data coalescer: src/coalescer/main.py (orchestration) and *)
(* src/coalescer/utility/grouping.py (grouping and batching).              *)
(*                                                                         *)
(* Python dicts are functions whose DOMAIN is the set of keys, lists are   *)
(* sequences.  A dict is iterated in the order of its keys (topics and     *)
(* partitions are numbered in the order the listing first shows them).     *)
(***************************************************************************)
EXTENDS Integers, Sequences, FiniteSets, TLC

VARIABLES
    args,       \* the parsed command line (main.py:16)
    summaries,  \* the listing of the bucket (main.py:21)
    grouped,    \* topic -> partition -> records by start_offset (main.py:23)
    batched,    \* topic -> partition -> list of batches (main.py:24)
    pc,         \* where main() is
    todo,       \* the topics the comprehension of main.py:26 has still to do
    topic,      \* the topic coalesce_topic is working on, <<>> when none
    executor,   \* the pool of coalesce_topic: max_workers and its work queue
    futures,    \* partition -> the future of its coalesce_partition task
    results,    \* what main.py:26 has collected: one entry per topic
    calls,      \* the calls the store has answered so far
    status      \* the exit status of the process, <<>> while it runs

vars == <<args, summaries, grouped, batched, pc, todo, topic, executor,
          futures, results, calls, status>>

---------------------------------------------------------------------------
(* Bounds of the model. *)

\* the longest group of records the batcher is given
MaxLen == 3
\* the largest object size
MaxObjSize == 2
\* the most worker threads asked for with --threads
MaxThreads == 2
\* the longest group of records of a run that coalesces
MaxGroup == 4
\* the largest --files of a run that coalesces
MaxFiles == 2
\* --size as argparse defaults it
DefaultSize == 100000

Topics == {1, 2}

Partitions == 0..1

\* --size and --files as drawn for the batcher: 0 is included so that the
\* claims' "max_size > 0 and max_count > 0" is a real precondition
SizeArgs == 0..(MaxObjSize + 1)
FilesArgs == 0..MaxLen

EmptyDict == <<>>

---------------------------------------------------------------------------
(* grouping.py: batched_object_summaries *)

\* a batcher that tests the count before the record is counted
CloseBatchOffByOne(current_batch_size, current_batch_count, max_size, max_count) ==
    current_batch_size >= max_size \/ current_batch_count + 1 >= max_count

\* a batcher that closes only past the bounds
CloseBatchStrict(current_batch_size, current_batch_count, max_size, max_count) ==
    current_batch_size > max_size \/ current_batch_count > max_count

\* a batcher that looks at the size alone
CloseBatchSizeOnly(current_batch_size, current_batch_count, max_size, max_count) ==
    current_batch_size >= max_size

\* grouping.py:51-52, the test that closes the running batch
CloseBatch(current_batch_size, current_batch_count, max_size, max_count) ==
    current_batch_size >= max_size \/ current_batch_count >= max_count

\* a batcher that forgets the remainder
FinalFlushDropped(out, current_batch) == out

\* grouping.py:57-58, the remainder is emitted when it is not empty
FinalFlush(out, current_batch) ==
    IF Len(current_batch) > 0 THEN Append(out, current_batch) ELSE out

\* grouping.py:43-58, the loop over one partition's objects
RECURSIVE BatchObjects(_, _, _, _, _, _, _)
BatchObjects(objects, current_batch, current_batch_size, current_batch_count, out, max_size, max_count) ==
    IF objects = <<>>
    THEN FinalFlush(out, current_batch)
    ELSE LET obj == Head(objects)
             b == Append(current_batch, obj)
             s == current_batch_size + obj.size
             c == current_batch_count + 1
         IN  IF CloseBatch(s, c, max_size, max_count)
             THEN BatchObjects(Tail(objects), <<>>, 0, 0, Append(out, b),
                               max_size, max_count)
             ELSE BatchObjects(Tail(objects), b, s, c, out,
                               max_size, max_count)

\* grouping.py:36-60
batched_object_summaries(max_size, max_count, g) ==
    [t \in DOMAIN g |->
        [p \in DOMAIN g[t] |->
            BatchObjects(g[t][p], <<>>, 0, 0, <<>>, max_size, max_count)]]

---------------------------------------------------------------------------
(* grouping.py: grouped_object_summaries.  A key is the sequence of its   *)
(* characters.                                                            *)

\* \d
DigitChars == {"0", "1", "2", "3", "4", "5", "6", "7", "8", "9"}

\* the letters of \w that the keys of the model use
LetterChars ==
    {"a", "b", "c", "d", "e", "f", "g", "h", "i", "j", "k", "l", "m", "n",
     "o", "p", "q", "r", "s", "t", "u", "v", "w", "x", "y", "z"}

\* [.\w]
TopicChars == {".", "_"} \cup LetterChars \cup DigitChars

\* the literal \.jsonl\.gz
Suffix == <<".", "j", "s", "o", "n", "l", ".", "g", "z">>

Max(S) == CHOOSE x \in S : \A y \in S : y <= x

Min(S) == CHOOSE x \in S : \A y \in S : x <= y

\* the end of the longest run of characters of a set that starts at i,
\* i - 1 when key[i] is not of the set
RunEnd(key, i, class) ==
    CHOOSE j \in (i - 1)..Len(key) :
        /\ \A k \in i..j : key[k] \in class
        /\ j = Len(key) \/ key[j + 1] \notin class

CharAt(key, i, c) == i \in DOMAIN key /\ key[i] = c

LiteralAt(key, i, lit) ==
    /\ i + Len(lit) - 1 <= Len(key)
    /\ SubSeq(key, i, i + Len(lit) - 1) = lit

\* $: the end of the key, or the place before a newline that ends it
AtEnd(key, i) == i = Len(key) + 1 \/ (i = Len(key) /\ key[i] = "\n")

\* where the group (\d+) of end_offset may end when it starts at i, for the
\* rest of the pattern to match
EndEnds(key, i) ==
    {j \in i..RunEnd(key, i, DigitChars) :
        /\ LiteralAt(key, j + 1, Suffix)
        /\ AtEnd(key, j + 1 + Len(Suffix))}

\* the same for the group of start_offset, which "-" follows
StartEnds(key, i) ==
    {j \in i..RunEnd(key, i, DigitChars) :
        CharAt(key, j + 1, "-") /\ EndEnds(key, j + 2) # {}}

\* the same for the group of partition, which "_" follows
PartitionEnds(key, i) ==
    {j \in i..RunEnd(key, i, DigitChars) :
        CharAt(key, j + 1, "_") /\ StartEnds(key, j + 2) # {}}

\* the same for the group ([.\w]+) of topic, which "_" follows
TopicEnds(key, i) ==
    {j \in i..RunEnd(key, i, TopicChars) :
        CharAt(key, j + 1, "_") /\ PartitionEnds(key, j + 2) # {}}

\* grouping.py:5: the pattern matches at i
MatchesAt(key, i) == CharAt(key, i, "/") /\ TopicEnds(key, i + 1) # {}

\* the groups of the match at i: each greedy group takes the longest run
\* that lets the rest match; last is the place of the match's last character
MatchAt(key, i) ==
    LET a == Max(TopicEnds(key, i + 1))
        b == Max(PartitionEnds(key, a + 2))
        c == Max(StartEnds(key, b + 2))
        d == Max(EndEnds(key, c + 2))
    IN  [topic |-> SubSeq(key, i + 1, a), partition |-> SubSeq(key, a + 2, b),
         start |-> SubSeq(key, b + 2, c), end |-> SubSeq(key, c + 2, d),
         last |-> d + Len(Suffix)]

\* grouping.py:9, filename_re.findall: the matches from left to right, each
\* search starting where the match before it ended
RECURSIVE findall(_, _)
findall(key, pos) ==
    LET starts == {i \in pos..Len(key) : MatchesAt(key, i)}
    IN  IF starts = {} THEN <<>>
        ELSE LET m == MatchAt(key, Min(starts))
             IN  <<m>> \o findall(key, m.last + 1)

DigitValue ==
    "0" :> 0 @@ "1" :> 1 @@ "2" :> 2 @@ "3" :> 3 @@ "4" :> 4 @@ "5" :> 5 @@
    "6" :> 6 @@ "7" :> 7 @@ "8" :> 8 @@ "9" :> 9

\* an int() that reads the digits from the right
intReversed(digits) ==
    LET RECURSIVE reversed(_)
        reversed(ds) ==
            IF ds = <<>> THEN 0
            ELSE reversed(Tail(ds)) * 10 + DigitValue[Head(ds)]
    IN  reversed(digits)

\* grouping.py:12, 23-24: int() of a string of decimal digits
int(digits) ==
    LET RECURSIVE value(_)
        value(ds) ==
            IF ds = <<>> THEN 0
            ELSE value(SubSeq(ds, 1, Len(ds) - 1)) * 10 + DigitValue[ds[Len(ds)]]
    IN  value(digits)

\* grouping.py:11-12, 19-25
RecordOf(summary, m) ==
    [object_key |-> summary.Key, topic |-> m.topic,
     partition |-> int(m.partition), start_offset |-> int(m.start),
     end_offset |-> int(m.end), size |-> summary.Size]

\* grouping.py:10
Matched(match) == match # <<>> /\ Len(match) = 1

\* grouping.py:13-19: grouped[topic][partition].append(record)
AppendRecord(g, r) ==
    LET old == IF r.topic \in DOMAIN g THEN g[r.topic] ELSE EmptyDict
        list == IF r.partition \in DOMAIN old THEN old[r.partition] ELSE <<>>
        new == [p \in DOMAIN old \cup {r.partition} |->
                   IF p = r.partition THEN Append(list, r) ELSE old[p]]
    IN  [t \in DOMAIN g \cup {r.topic} |-> IF t = r.topic THEN new ELSE g[t]]

\* grouping.py:7-25: the loop over the listing
RECURSIVE GroupLoop(_, _)
GroupLoop(rest, g) ==
    IF rest = <<>> THEN g
    ELSE LET summary == Head(rest)
             match == findall(summary.Key, 1)
         IN  IF Matched(match)
             THEN GroupLoop(Tail(rest), AppendRecord(g, RecordOf(summary, match[1])))
             ELSE GroupLoop(Tail(rest), g)

\* a sort that puts a record before the records of the same start_offset
InsertSortedBefore(placed, r) ==
    LET n == Cardinality({i \in DOMAIN placed :
                             placed[i].start_offset < r.start_offset})
    IN  SubSeq(placed, 1, n) \o <<r>> \o SubSeq(placed, n + 1, Len(placed))

\* sorted() is stable: a record goes behind the records already placed
\* whose start_offset is not larger
InsertSorted(placed, r) ==
    LET n == Cardinality({i \in DOMAIN placed :
                             placed[i].start_offset <= r.start_offset})
    IN  SubSeq(placed, 1, n) \o <<r>> \o SubSeq(placed, n + 1, Len(placed))

\* grouping.py:30-31: sorted(keys, key=lambda x: x['start_offset'])
RECURSIVE sorted(_)
sorted(keys) ==
    IF keys = <<>> THEN <<>>
    ELSE InsertSorted(sorted(SubSeq(keys, 1, Len(keys) - 1)), keys[Len(keys)])

\* grouping.py:4-33
grouped_object_summaries(listing) ==
    LET g == GroupLoop(listing, EmptyDict)
    IN  [t \in DOMAIN g |-> [p \in DOMAIN g[t] |-> sorted(g[t][p])]]

---------------------------------------------------------------------------
(* Inputs: the dicts grouped_object_summaries can return. *)

\* the sequences of sizes of at most n objects, the empty one included
SizeSeqs(n, sizes) == UNION {[1..k -> sizes] : k \in 0..n}

\* one group: records of one topic and partition in start_offset order
MkRecords(t, p, sz) ==
    [i \in 1..Len(sz) |->
        [topic |-> t, partition |-> p, start_offset |-> i, size |-> sz[i]]]

\* the dict built from a choice of sizes per (topic, partition); a key is
\* present only when a record was appended under it (grouping.py:13-19)
MkGrouped(topics, shape) ==
    LET present(t) == {p \in Partitions : shape[t, p] # <<>>}
    IN  [t \in {u \in topics : present(u) # {}} |->
            [p \in present(t) |-> MkRecords(t, p, shape[t, p])]]

\* the keys of a dict, in the order a loop over it visits them
Keys(d) ==
    [i \in 1..Cardinality(DOMAIN d) |->
        CHOOSE k \in DOMAIN d : Cardinality({j \in DOMAIN d : j < k}) = i - 1]

NoArgs == [size |-> 0, files |-> 0, threads |-> 1, multiprocessor |-> FALSE,
           partition |-> <<>>]

Idle == /\ todo = <<>>
        /\ topic = <<>>
        /\ executor = [kind |-> "none", max_workers |-> 0, queue |-> <<>>]
        /\ futures = EmptyDict
        /\ results = <<>>
        /\ calls = {}
        /\ status = <<>>

---------------------------------------------------------------------------
(* The batcher on its own: SpecBatch applies batched_object_summaries to    *)
(* every grouped dict of one topic within the bounds.                       *)

\* partition 0 holds any sizes, the other partitions objects of one size
BatchShapes ==
    {sh \in [{1} \X Partitions -> SizeSeqs(MaxLen, 0..MaxObjSize)] :
        \A p \in Partitions \ {0} :
            \A i \in DOMAIN sh[1, p] : sh[1, p][i] = sh[1, p][1]}

InitBatch ==
    /\ \E shape \in BatchShapes, s \in SizeArgs, f \in FilesArgs :
          /\ grouped = MkGrouped({1}, shape)
          /\ args = [NoArgs EXCEPT !.size = s, !.files = f]
    /\ summaries = <<>>
    /\ batched = EmptyDict
    /\ pc = "batch"
    /\ Idle

\* main.py:24
Batch ==
    /\ pc = "batch"
    /\ batched' = batched_object_summaries(args.size, args.files, grouped)
    /\ pc' = "topics"
    /\ todo' = Keys(grouped)
    /\ UNCHANGED <<args, summaries, grouped, topic, executor, futures,
                   results, calls, status>>

NextBatch == Batch

SpecBatch == InitBatch /\ [][NextBatch]_vars

---------------------------------------------------------------------------
(* main.py: the orchestration.  Spec runs main.py:24-30 on the grouped    *)
(* dicts of two topics of unit-size objects: the first partition of the   *)
(* first topic holds up to MaxGroup records, the second partition and the *)
(* one partition of the second topic two records fewer.                   *)

Shapes ==
    {sh \in [Topics \X Partitions -> SizeSeqs(MaxGroup, {1})] :
        /\ \A p \in Partitions \ {0} : sh[2, p] = <<>>
        /\ \A g \in (Topics \X Partitions) \ {<<1, 0>>} :
              Len(sh[g]) <= MaxGroup - 2}

Init ==
    /\ \E shape \in Shapes, f \in 1..MaxFiles, th \in 1..MaxThreads,
          m \in BOOLEAN :
          /\ grouped = MkGrouped(Topics, shape)
          /\ args = [size |-> DefaultSize, files |-> f, threads |-> th,
                     multiprocessor |-> m, partition |-> <<>>]
    /\ summaries = <<>>
    /\ batched = EmptyDict
    /\ pc = "batch"
    /\ Idle

\* a pool one worker too wide
pooled_executorTooWide(multiprocessor, threads) ==
    [kind |-> IF multiprocessor THEN "process" ELSE "thread",
     max_workers |-> threads + 1, queue |-> <<>>]

\* a pool of one worker whatever --threads says
pooled_executorSingle(multiprocessor, threads) ==
    [kind |-> IF multiprocessor THEN "process" ELSE "thread",
     max_workers |-> 1, queue |-> <<>>]

\* main.py:49-50
pooled_executor(multiprocessor, threads) ==
    [kind |-> IF multiprocessor THEN "process" ELSE "thread",
     max_workers |-> threads, queue |-> <<>>]

Running == {p \in DOMAIN futures : futures[p].state = "running"}

\* a coalesce_partition that walks its batches from the last to the first
BatchAtReversed(p) == Len(batched[topic[1]][p]) - futures[p].batch + 1

\* main.py:56: "for batch in partition" visits the batches in list order,
\* the task's k-th step is on the k-th batch
BatchAt(p) == futures[p].batch

\* the batch a running task is at
CurrentBatch(p) == batched[topic[1]][p][BatchAt(p)]

\* main.py:34-38: the pool is made and one coalesce_partition task per
\* partition is submitted to it
coalesce_topic_submit ==
    /\ pc = "topics"
    /\ todo # <<>>
    /\ topic' = <<Head(todo)>>
    /\ todo' = Tail(todo)
    /\ executor' = [pooled_executor(args.multiprocessor, args.threads)
                      EXCEPT !.queue = Keys(batched[Head(todo)])]
    /\ futures' = [p \in DOMAIN batched[Head(todo)] |->
                     [state |-> "pending", batch |-> 1, step |-> "coalesce",
                      result |-> <<>>]]
    /\ pc' = "wait"
    /\ UNCHANGED <<args, summaries, grouped, batched, results, calls, status>>

\* the pool: a worker that is free takes the oldest queued task
\* (main.py:53-56, coalesce_partition starts on its first batch)
TaskStart(p) ==
    /\ executor.queue # <<>>
    /\ p = Head(executor.queue)
    /\ Cardinality(Running) < executor.max_workers
    /\ executor' = [executor EXCEPT !.queue = Tail(@)]
    /\ futures' = [futures EXCEPT ![p].state = "running"]
    /\ UNCHANGED <<args, summaries, grouped, batched, pc, todo, topic,
                   results, calls, status>>

\* tasks that share state: a batch ends in success only when no other task
\* of the pool is running
BatchReturnsShared(f, ok, n) ==
    [state |-> IF f.batch = n THEN "finished" ELSE "running",
     batch |-> f.batch + 1, step |-> "coalesce",
     result |-> Append(f.result, ok /\ Cardinality(Running) = 1)]

\* main.py:56 and 66/69: coalesce_batch returns ok, the comprehension goes
\* to the next batch, after the last one the task's list is the future's
\* result
BatchReturns(f, ok, n) ==
    [state |-> IF f.batch = n THEN "finished" ELSE "running",
     batch |-> f.batch + 1, step |-> "coalesce",
     result |-> Append(f.result, ok)]

\* a coalesce_batch that does not catch the rejection: it ends the task
CoalesceAnsweredUncaught(f, accepted, n) ==
    IF accepted
    THEN [f EXCEPT !.step = "delete"]
    ELSE [f EXCEPT !.state = "finished", !.result = Append(@, FALSE)]

\* a coalesce_batch that goes on to the delete when the coalesce is rejected
CoalesceAnsweredDeletesAnyway(f, accepted, n) == [f EXCEPT !.step = "delete"]

\* main.py:62-63 and 67-69: after an accepted coalesce the delete is next, a
\* rejected one (ClientError) is caught and the batch has failed
CoalesceAnswered(f, accepted, n) ==
    IF accepted THEN [f EXCEPT !.step = "delete"] ELSE BatchReturns(f, FALSE, n)

\* a coalesce_batch that reports a rejected delete as a success
DeleteAnsweredIgnored(f, accepted, n) == BatchReturns(f, TRUE, n)

\* a coalesce_batch that asks again when the delete is rejected
DeleteAnsweredRetried(f, accepted, n) ==
    IF accepted THEN BatchReturns(f, TRUE, n) ELSE f

\* main.py:63-69: an accepted delete ends the batch in success, a rejected
\* one (ClientError) is caught and the batch has failed
DeleteAnswered(f, accepted, n) == BatchReturns(f, accepted, n)

\* the store's record of one call
Call(p, op, accepted) ==
    [topic |-> topic[1], partition |-> p, batch |-> BatchAt(p),
     op |-> op, accepted |-> accepted,
     nth |-> 1 + Cardinality({c \in calls :
                 /\ c.topic = topic[1] /\ c.partition = p
                 /\ c.batch = BatchAt(p) /\ c.op = op})]

\* a coalesce_batch that sends every non-empty batch to the store
CoalescableAny(batch) == Len(batch) > 0

\* main.py:61
Coalescable(batch) == Len(batch) > 1

\* main.py:61-62: s3.coalesce_batch on a batch of more than one record; the
\* store accepts or rejects the request
StoreCoalesce(p, accepted) ==
    /\ p \in Running
    /\ futures[p].step = "coalesce"
    /\ Coalescable(CurrentBatch(p))
    /\ calls' = calls \cup {Call(p, "coalesce", accepted)}
    /\ futures' = [futures EXCEPT ![p] =
                     CoalesceAnswered(@, accepted, Len(batched[topic[1]][p]))]
    /\ UNCHANGED <<args, summaries, grouped, batched, pc, todo, topic,
                   executor, results, status>>

\* main.py:63: s3.delete_batch; the store accepts or rejects the request
StoreDelete(p, accepted) ==
    /\ p \in Running
    /\ futures[p].step = "delete"
    /\ calls' = calls \cup {Call(p, "delete", accepted)}
    /\ futures' = [futures EXCEPT ![p] =
                     DeleteAnswered(@, accepted, Len(batched[topic[1]][p]))]
    /\ UNCHANGED <<args, summaries, grouped, batched, pc, todo, topic,
                   executor, results, status>>

\* main.py:61, 64-66: "Not processing batch of size 1"
SkipSingle(p) ==
    /\ p \in Running
    /\ futures[p].step = "coalesce"
    /\ ~Coalescable(CurrentBatch(p))
    /\ futures' = [futures EXCEPT ![p] =
                     BatchReturns(@, TRUE, Len(batched[topic[1]][p]))]
    /\ UNCHANGED <<args, summaries, grouped, batched, pc, todo, topic,
                   executor, results, calls, status>>

\* a coalesce_topic that does not wait for its futures
WaitDoneSkipped == TRUE

\* main.py:42-43: wait(futures) and executor.shutdown() return when every
\* submitted task has finished
WaitDone ==
    /\ executor.queue = <<>>
    /\ \A p \in DOMAIN futures : futures[p].state = "finished"

\* main.py:42-46: coalesce_topic returns its futures to main.py:26
coalesce_topic_return ==
    /\ pc = "wait"
    /\ WaitDone
    /\ results' = Append(results, [p \in DOMAIN futures |-> futures[p].result])
    /\ pc' = "topics"
    /\ UNCHANGED <<args, summaries, grouped, batched, todo, topic, executor,
                   futures, calls, status>>

\* utility.grouping.successful_result, which grouping.py does not hold:
\* the logical AND of every batch outcome of the run
successful_result(rs) ==
    \A k \in DOMAIN rs : \A p \in DOMAIN rs[k] : \A i \in DOMAIN rs[k][p] :
        rs[k][p][i]

\* main.py:30
Exit ==
    /\ pc = "topics"
    /\ todo = <<>>
    /\ status' = <<IF successful_result(results) THEN 0 ELSE 2>>
    /\ pc' = "exited"
    /\ UNCHANGED <<args, summaries, grouped, batched, todo, topic, executor,
                   futures, results, calls>>

Next ==
    \/ Batch
    \/ coalesce_topic_submit
    \/ \E p \in Partitions : TaskStart(p)
    \/ \E p \in Partitions, accepted \in BOOLEAN : StoreCoalesce(p, accepted)
    \/ \E p \in Partitions, accepted \in BOOLEAN : StoreDelete(p, accepted)
    \/ \E p \in Partitions : SkipSingle(p)
    \/ coalesce_topic_return
    \/ Exit

Spec == Init /\ [][Next]_vars

---------------------------------------------------------------------------
(* main.py: the whole of main().  SpecMain starts at main.py:14 and ends  *)
(* at main.py:23, which raises; the lines after it are reached only when  *)
(* the functions are driven on their own, as Spec does from main.py:24.   *)

\* the parameters of grouped_object_summaries (grouping.py:4): summaries
GroupedParams == 1

\* the objects a listing may show, one key of the naming grammar and one
\* that is not
Descriptors ==
    {[Key |-> "data/db.coll_0_0-9.jsonl.gz", Size |-> 1],
     [Key |-> "data/readme.txt", Size |-> 1]}

Listings == UNION {[1..k -> Descriptors] : k \in 0..2}

InitMain ==
    /\ \E f \in 1..MaxFiles, th \in 1..MaxThreads, m \in BOOLEAN,
          n \in {<<>>} \cup {<<p>> : p \in Partitions} :
          args = [size |-> DefaultSize, files |-> f, threads |-> th,
                  multiprocessor |-> m, partition |-> n]
    /\ summaries = <<>>
    /\ grouped = EmptyDict
    /\ batched = EmptyDict
    /\ pc = "list"
    /\ Idle

\* main.py:21: s3.object_summaries, the store's listing of the prefix
object_summaries ==
    /\ pc = "list"
    /\ summaries' \in Listings
    /\ pc' = "group"
    /\ UNCHANGED <<args, grouped, batched, todo, topic, executor, futures,
                   results, calls, status>>

\* main.py:23: grouped_object_summaries(summaries, args.partition) gives
\* two positional arguments to a function of one parameter (grouping.py:4):
\* Python raises TypeError before the body runs, nothing in main() catches
\* it, and the interpreter ends the process with status 1
main_group ==
    /\ pc = "group"
    /\ Len(<<summaries, args.partition>>) # GroupedParams
    /\ pc' = "crashed"
    /\ status' = <<1>>
    /\ UNCHANGED <<args, summaries, grouped, batched, todo, topic, executor,
                   futures, results, calls>>

NextMain == object_summaries \/ main_group

SpecMain == InitMain /\ [][NextMain]_vars

---------------------------------------------------------------------------
(* The grouping on its own: SpecGroup applies grouped_object_summaries to  *)
(* listings of objects with distinct keys.                                 *)

MaxTopic == 2

Dir == <<"d">>

\* a key of the naming pattern of grouping.py:5, and what follows it
Format(t, partition, start, end, rest) ==
    Dir \o <<"/">> \o t \o <<"_">> \o partition \o <<"_">> \o start
        \o <<"-">> \o end \o Suffix \o rest

TopicStrings ==
    UNION {[1..n -> {"a", "_", ".", "7", "-"}] : n \in 1..MaxTopic}

NumberStrings == {<<"0">>, <<"7">>, <<"1", "2">>, <<"0", "7">>}

\* listings of one object: its key has any topic and numbers, and ends
\* with the suffix or with a newline after it
NamedListings ==
    {<<[Key |-> Format(t, p, s, e, rest), Size |-> 1]>> :
        t \in TopicStrings, p \in {<<"0">>, <<"1", "2">>}, s \in NumberStrings,
        e \in {<<"9">>, <<"1", "2">>}, rest \in {<<>>, <<"\n">>}}

\* keys of two topics and two partitions, with equal and with unordered
\* start offsets, and keys the pattern does not match
PoolKeys ==
    {Format(<<"a">>, <<"0">>, <<"5">>, <<"9">>, <<>>),
     Format(<<"a">>, <<"0">>, <<"0", "5">>, <<"7">>, <<>>),
     Format(<<"a">>, <<"0">>, <<"2">>, <<"4">>, <<>>),
     Format(<<"a">>, <<"0">>, <<"1", "2">>, <<"1", "9">>, <<>>),
     Format(<<"a">>, <<"1">>, <<"0">>, <<"3">>, <<>>),
     Format(<<"b", ".", "c">>, <<"0">>, <<"0">>, <<"1">>, <<>>),
     <<"d", "/", "r", "e", "a", "d", "m", "e", ".", "t", "x", "t">>,
     <<"a", "_", "0", "_", "1", "-", "2">> \o Suffix}

PoolListings ==
    {l \in UNION {[1..n -> [Key : PoolKeys, Size : {1, MaxObjSize}]] :
                     n \in 0..MaxLen} :
        \A i, j \in DOMAIN l : l[i].Key = l[j].Key => i = j}

InitGroup ==
    /\ summaries \in NamedListings \cup PoolListings
    /\ args = [NoArgs EXCEPT !.size = DefaultSize, !.files = MaxFiles]
    /\ grouped = EmptyDict
    /\ batched = EmptyDict
    /\ pc = "group"
    /\ Idle

\* grouping.py:4-33 called with the listing
Group ==
    /\ pc = "group"
    /\ grouped' = grouped_object_summaries(summaries)
    /\ pc' = "grouped"
    /\ UNCHANGED <<args, summaries, batched, todo, topic, executor, futures,
                   results, calls, status>>

NextGroup == Group

SpecGroup == InitGroup /\ [][NextGroup]_vars

---------------------------------------------------------------------------
(* The batcher's claims. *)

RECURSIVE Flatten(_)
Flatten(bs) == IF bs = <<>> THEN <<>> ELSE Head(bs) \o Flatten(Tail(bs))

RECURSIVE SumSizes(_)
SumSizes(b) == IF b = <<>> THEN 0 ELSE Head(b).size + SumSizes(Tail(b))

Prefix(b, k) == SubSeq(b, 1, k)

Groups ==
    {g \in (DOMAIN grouped) \X Partitions : g[2] \in DOMAIN grouped[g[1]]}

Batched == pc # "batch"

PositiveBounds == args.size > 0 /\ args.files > 0

\* C2: for max_size > 0 and max_count > 0, the batches of every (stream,
\* partition) group, concatenated in order, are exactly the group's record
\* sequence, and the batch plan has the groups of the input and no other.
C2_ConcatenationIsGroup ==
    (Batched /\ PositiveBounds) =>
        /\ DOMAIN batched = DOMAIN grouped
        /\ \A t \in DOMAIN grouped :
              /\ DOMAIN batched[t] = DOMAIN grouped[t]
              /\ \A p \in DOMAIN grouped[t] :
                    /\ Flatten(batched[t][p]) = grouped[t][p]
                    /\ \A i \in DOMAIN batched[t][p] :
                          \A k \in DOMAIN batched[t][p][i] :
                              /\ batched[t][p][i][k].topic = t
                              /\ batched[t][p][i][k].partition = p

\* two groups, one cut into a closed batch and a remainder
C2_Witness ==
    /\ Batched /\ PositiveBounds
    /\ Cardinality(Groups) = 2
    /\ \E g \in Groups :
          /\ Len(batched[g[1]][g[2]]) >= 2
          /\ Len(grouped[g[1]][g[2]]) = MaxLen
          /\ ~CloseBatch(SumSizes(batched[g[1]][g[2]][Len(batched[g[1]][g[2]])]),
                         Len(batched[g[1]][g[2]][Len(batched[g[1]][g[2]])]),
                         args.size, args.files)

\* C3: every batch of a group but its last has a total size >= max_size or
\* a record count >= max_count.
C3_NonFinalBatchesReachBound ==
    Batched =>
        \A g \in Groups :
            \A i \in 1..(Len(batched[g[1]][g[2]]) - 1) :
                \/ SumSizes(batched[g[1]][g[2]][i]) >= args.size
                \/ Len(batched[g[1]][g[2]][i]) >= args.files

\* a group whose first batch closed on its size alone and whose last batch
\* is below both bounds
C3_Witness ==
    /\ Batched /\ PositiveBounds
    /\ \E g \in Groups :
          LET bs == batched[g[1]][g[2]]
          IN  /\ Len(bs) >= 2
              /\ SumSizes(bs[1]) >= args.size
              /\ Len(bs[1]) < args.files
              /\ SumSizes(bs[Len(bs)]) < args.size
              /\ Len(bs[Len(bs)]) < args.files

---------------------------------------------------------------------------
(* The orchestration's claims. *)

AllBatches ==
    {b \in (DOMAIN batched) \X Partitions \X (1..MaxGroup + 1) :
        /\ b[2] \in DOMAIN batched[b[1]]
        /\ b[3] \in DOMAIN batched[b[1]][b[2]]}

BatchOf(b) == batched[b[1]][b[2]][b[3]]

\* the position of topic t in the comprehension of main.py:26
TopicIndex(t) == Cardinality({u \in DOMAIN batched : u < t}) + 1

\* the outcomes coalesce_partition has so far for partition p of topic t
Outcomes(t, p) ==
    IF TopicIndex(t) <= Len(results) THEN results[TopicIndex(t)][p]
    ELSE IF topic = <<t>> THEN futures[p].result
    ELSE <<>>

HasOutcome(b) == b[3] <= Len(Outcomes(b[1], b[2]))

OutcomeOf(b) == Outcomes(b[1], b[2])[b[3]]

CallsOf(b, op) ==
    {c \in calls : /\ c.topic = b[1] /\ c.partition = b[2] /\ c.batch = b[3]
                   /\ c.op = op}

Accepted(b, op) == \E c \in CallsOf(b, op) : c.accepted

Rejected(b, op) == \E c \in CallsOf(b, op) : ~c.accepted

\* the batch the task of partition p is about to ask the store to delete
AtDelete(b) ==
    /\ topic = <<b[1]>>
    /\ b[2] \in Running
    /\ futures[b[2]].batch = b[3]
    /\ futures[b[2]].step = "delete"

\* C1: the delete of a batch is asked for only once the store has accepted
\* the coalesce of that batch, and a batch whose coalesce the store has
\* rejected is never deleted.
C1_DeleteOnlyAfterCoalesce ==
    \A b \in AllBatches :
        /\ (AtDelete(b) \/ CallsOf(b, "delete") # {}) =>
              /\ Len(BatchOf(b)) > 1
              /\ Accepted(b, "coalesce")
        /\ Rejected(b, "coalesce") =>
              /\ ~AtDelete(b)
              /\ CallsOf(b, "delete") = {}

\* the run is over, one batch was rejected at its coalesce, another one was
\* coalesced and deleted
C1_Witness ==
    /\ pc = "exited"
    /\ \E b \in AllBatches : Rejected(b, "coalesce")
    /\ \E b \in AllBatches : Accepted(b, "coalesce") /\ Accepted(b, "delete")

\* C5: a group of one record gives one batch of that record, and a batch of
\* one record is a success for which the store is asked nothing.
C5_SingleRecord ==
    Batched =>
        /\ \A g \in Groups :
              Len(grouped[g[1]][g[2]]) = 1 =>
                  batched[g[1]][g[2]] = <<grouped[g[1]][g[2]]>>
        /\ \A b \in AllBatches :
              Len(BatchOf(b)) = 1 =>
                  /\ CallsOf(b, "coalesce") = {}
                  /\ CallsOf(b, "delete") = {}
                  /\ ~AtDelete(b)
                  /\ HasOutcome(b) => OutcomeOf(b)

\* the run is over, it had a group of one record, and a one-record
\* remainder came after a batch the store rejected
C5_Witness ==
    /\ pc = "exited"
    /\ \E g \in Groups : Len(grouped[g[1]][g[2]]) = 1
    /\ \E b \in AllBatches :
          /\ b[3] = 2
          /\ Len(BatchOf(b)) = 1
          /\ HasOutcome(b) /\ OutcomeOf(b)
          /\ Rejected(<<b[1], b[2], 1>>, "coalesce")

\* C6: a batch whose coalesce the store accepted and whose delete it
\* rejected has the outcome failure, and the run's exit status is not 0.
C6_DeleteRejected ==
    \A b \in AllBatches :
        (Accepted(b, "coalesce") /\ Rejected(b, "delete")) =>
            /\ HasOutcome(b) /\ ~OutcomeOf(b)
            /\ pc = "exited" => status = <<2>>

\* the run is over, of its three batches or more one had its delete
\* rejected and it is the only failure
C6_Witness ==
    /\ pc = "exited"
    /\ Cardinality(AllBatches) >= 3
    /\ \E b \in AllBatches :
          /\ Accepted(b, "coalesce") /\ Rejected(b, "delete")
          /\ \A o \in AllBatches \ {b} : HasOutcome(o) /\ OutcomeOf(o)

\* every batch of the plan has an outcome
AllOutcomes == \A b \in AllBatches : HasOutcome(b)

\* C7: when the run ends the exit status is 0 if no batch was produced or
\* every batch outcome is success, and 2 otherwise.
C7_ExitStatus ==
    status # <<>> =>
        status = <<IF AllOutcomes /\ \A b \in AllBatches : OutcomeOf(b)
                   THEN 0 ELSE 2>>

\* C8: a rejection fails its own batch and no other: when the run reports
\* its result every batch of every topic and partition has an outcome, the
\* store was asked to coalesce every batch of more than one record, and a
\* batch has failed exactly when the store rejected a request for it.
C8_RejectionStaysInBatch ==
    pc = "exited" =>
        /\ Len(results) = Cardinality(DOMAIN batched)
        /\ \A b \in AllBatches :
              /\ HasOutcome(b)
              /\ Len(BatchOf(b)) > 1 => CallsOf(b, "coalesce") # {}
              /\ OutcomeOf(b) <=>
                    ~(Rejected(b, "coalesce") \/ Rejected(b, "delete"))

\* the first batch of a partition was rejected; a later batch of that
\* partition, a batch of another partition and a batch of another topic
\* were coalesced and deleted, and the run has failed
C8_Witness ==
    /\ pc = "exited"
    /\ status = <<2>>
    /\ \E b \in AllBatches :
          /\ b[3] = 1
          /\ Rejected(b, "coalesce")
          /\ \E o \in AllBatches :
                o[1] = b[1] /\ o[2] = b[2] /\ o[3] > 1 /\ Accepted(o, "delete")
          /\ \E o \in AllBatches :
                o[1] = b[1] /\ o[2] # b[2] /\ Accepted(o, "delete")
          /\ \E o \in AllBatches : o[1] # b[1] /\ Accepted(o, "delete")

\* C9: once coalesce_topic has returned for a topic none of its tasks is
\* queued or running: each has finished with an outcome for every batch.
C9_TopicDrained ==
    (pc # "wait" /\ topic # <<>>) =>
        /\ executor.queue = <<>>
        /\ \A p \in DOMAIN futures :
              /\ futures[p].state = "finished"
              /\ Len(futures[p].result) = Len(batched[topic[1]][p])

\* coalesce_topic has returned for a topic of two partitions whose batches
\* went to the store
C9_Witness ==
    /\ pc = "topics"
    /\ results # <<>>
    /\ Cardinality(DOMAIN futures) = 2
    /\ \A p \in DOMAIN futures :
          \E c \in calls : c.topic = topic[1] /\ c.partition = p

\* C10: at no time do more tasks of a topic run than --threads allows.
C10_BoundedWorkers == Cardinality(Running) <= args.threads

\* as many tasks run as --threads allows and another one waits in the queue
C10_Witness ==
    /\ Cardinality(Running) = args.threads
    /\ executor.queue # <<>>
    /\ \E p \in Running : futures[p].step = "delete"

\* one step of the task of partition p: a store call answered, or a batch
\* of one record passed over
TaskStep(p) ==
    \/ \E accepted \in BOOLEAN : StoreCoalesce(p, accepted)
    \/ \E accepted \in BOOLEAN : StoreDelete(p, accepted)
    \/ SkipSingle(p)

\* the batches of the topic at work
TopicBatches == {b \in AllBatches : topic = <<b[1]>>}

\* the task of b's partition has not come to b yet
NotStarted(b) ==
    \/ futures[b[2]].state = "pending"
    \/ futures[b[2]].state = "running" /\ futures[b[2]].batch < b[3]

\* the place of partition p in the pool's queue, 0 when it is not queued
QueuePos(p) ==
    Cardinality({k \in DOMAIN executor.queue :
        \E j \in k..Len(executor.queue) : executor.queue[j] = p})

\* b can start without any other batch finishing first: its task is at b
\* and can take its step, or b is the first batch of a queued task that the
\* workers now free will come to
CanStart(b) ==
    \/ /\ futures[b[2]].state = "running"
       /\ futures[b[2]].batch = b[3]
       /\ ENABLED TaskStep(b[2])
    \/ /\ futures[b[2]].state = "pending"
       /\ b[3] = 1
       /\ QueuePos(b[2]) <= executor.max_workers - Cardinality(Running)

\* C11 as stated: a batch that has not started can start now, whichever
\* other batches of the topic have not finished.
C11_NoBatchWaits ==
    pc = "wait" => \A b \in TopicBatches : NotStarted(b) => CanStart(b)

\* C11 as amended: a batch waits only for the earlier batches of its own
\* partition and for a worker.  A running task is always able to take the
\* step of the batch it is at, with exactly the earlier batches of its
\* partition done, whatever the other tasks are at; and the oldest queued
\* task can start exactly when fewer than --threads tasks run.
C11_WaitsOnlyForOwnPartitionAndWorker ==
    pc = "wait" =>
        /\ \A p \in Running :
              /\ ENABLED TaskStep(p)
              /\ Len(futures[p].result) = futures[p].batch - 1
        /\ executor.queue # <<>> =>
              (ENABLED TaskStart(Head(executor.queue))
                  <=> Cardinality(Running) < args.threads)

\* a task is in the middle of its first batch while the other partition's
\* task is still queued behind it for the one worker
C11_Witness ==
    /\ pc = "wait"
    /\ executor.queue # <<>>
    /\ \E p \in Running :
          /\ futures[p].step = "delete"
          /\ Len(batched[topic[1]][p]) >= 2

Returned == {t \in DOMAIN batched : TopicIndex(t) <= Len(results)}

\* C17: every batch of the plan is run once.  The store gets no request
\* twice and only requests for batches of the plan; once coalesce_topic has
\* returned for a topic, each of its partitions has as many outcomes as
\* batches, the i-th outcome being that of the i-th batch.
C17_EachBatchOnce ==
    /\ \A c \in calls :
          /\ c.nth = 1
          /\ <<c.topic, c.partition, c.batch>> \in AllBatches
    /\ \A t \in Returned :
          /\ DOMAIN results[TopicIndex(t)] = DOMAIN batched[t]
          /\ \A p \in DOMAIN batched[t] :
                /\ Len(results[TopicIndex(t)][p]) = Len(batched[t][p])
                /\ \A i \in DOMAIN batched[t][p] :
                      results[TopicIndex(t)][p][i] <=>
                          \/ Len(batched[t][p][i]) <= 1
                          \/ /\ Accepted(<<t, p, i>>, "coalesce")
                             /\ Accepted(<<t, p, i>>, "delete")

\* coalesce_topic has returned for a topic with a partition of two batches
\* of which the first had its delete rejected and the second went through
C17_Witness ==
    /\ \E t \in Returned : \E p \in DOMAIN batched[t] :
          /\ Len(batched[t][p]) >= 2
          /\ Rejected(<<t, p, 1>>, "delete")
          /\ Accepted(<<t, p, 2>>, "delete")
          /\ results[TopicIndex(t)][p][1] = FALSE
          /\ results[TopicIndex(t)][p][2] = TRUE

\* C18: the batches of one partition run one at a time in batch order: the
\* store is asked about a batch, and a task is at a batch, only when every
\* earlier batch of that partition has its outcome and no later one has.
C18_PartitionInOrder ==
    /\ \A c \in calls :
          \A j \in 1..(c.batch - 1) :
              HasOutcome(<<c.topic, c.partition, j>>)
    /\ pc = "wait" =>
          \A p \in Running :
              /\ BatchAt(p) = Len(futures[p].result) + 1
              /\ \A b \in TopicBatches :
                    (b[2] = p /\ b[3] >= BatchAt(p)) =>
                        /\ ~HasOutcome(b)
                        /\ b[3] > BatchAt(p) =>
                              /\ CallsOf(b, "coalesce") = {}
                              /\ CallsOf(b, "delete") = {}

\* the tasks of two partitions both in the middle of a batch, one of them
\* at its second batch
C18_Witness ==
    /\ pc = "wait"
    /\ Cardinality(Running) = 2
    /\ \A p \in Running : futures[p].step = "delete"
    /\ \E p \in Running : BatchAt(p) = 2

\* C19: the topics are worked one after another: every request the store
\* gets is for the topic at work, and by the time a topic is at work each
\* topic before it has been returned for with all its outcomes, so no batch
\* of it is queued or running.
C19_TopicsInSequence ==
    /\ \A t \in Returned :
          \A p \in DOMAIN batched[t] :
              Len(results[TopicIndex(t)][p]) = Len(batched[t][p])
    /\ pc = "wait" =>
          /\ Len(results) = TopicIndex(topic[1]) - 1
          /\ \A c \in calls : TopicIndex(c.topic) <= TopicIndex(topic[1])
          /\ \A b \in AllBatches :
                TopicIndex(b[1]) > TopicIndex(topic[1]) =>
                    CallsOf(b, "coalesce") = {}
    /\ Running # {} => pc = "wait"

\* the second topic is at work, both topics have had a batch at the store
C19_Witness ==
    /\ pc = "wait"
    /\ Len(results) = 1
    /\ Running # {}
    /\ \E c \in calls : c.topic # topic[1]
    /\ \E c \in calls : c.topic = topic[1]

\* C14: with --partition p the run is on partition p alone and ends with a
\* result: exit status 0 or 2, and no group of another partition.
C14_PartitionFilter ==
    (args.partition # <<>> /\ status # <<>>) =>
        /\ pc = "exited"
        /\ status \in {<<0>>, <<2>>}
        /\ \A t \in DOMAIN grouped : DOMAIN grouped[t] \subseteq {args.partition[1]}

---------------------------------------------------------------------------
(* Claims about the grouping. *)

Grouped == pc = "grouped"

\* the place of the object of a key in the listing
ListingIndex(key) == CHOOSE i \in DOMAIN summaries : summaries[i].Key = key

\* the records of all groups
GroupedRecords ==
    UNION {UNION {{grouped[t][p][i] : i \in DOMAIN grouped[t][p]} :
                     p \in DOMAIN grouped[t]} : t \in DOMAIN grouped}

\* C12: in every group returned by grouped_object_summaries all records
\* have the topic and the partition of the group, start_offset never
\* decreases along the group, and records of equal start_offset stand in
\* the order in which the listing had them.
C12_GroupsOrdered ==
    Grouped =>
        \A t \in DOMAIN grouped : \A p \in DOMAIN grouped[t] :
            LET g == grouped[t][p]
            IN  /\ \A i \in DOMAIN g : g[i].topic = t /\ g[i].partition = p
                /\ \A i, j \in DOMAIN g :
                      i < j =>
                          /\ g[i].start_offset <= g[j].start_offset
                          /\ g[i].start_offset = g[j].start_offset =>
                                ListingIndex(g[i].object_key)
                                    < ListingIndex(g[j].object_key)

\* a group of three records: the sort moved the first one forward, and the
\* other two have the same start_offset
C12_Witness ==
    /\ Grouped
    /\ \E t \in DOMAIN grouped : \E p \in DOMAIN grouped[t] :
          LET g == grouped[t][p]
          IN  /\ Len(g) = 3
              /\ g[1].start_offset < g[2].start_offset
              /\ g[2].start_offset = g[3].start_offset
              /\ ListingIndex(g[1].object_key) > ListingIndex(g[2].object_key)

\* the naming grammar <dir>/<topic>_<partition>_<start>-<end><suffix>, said
\* without the pattern: the places of "/", "_", "_" and "-" in a key that
\* ends with the suffix, with a topic of word characters and dots and three
\* numbers of decimal digits between them
Positions(key, c) == {i \in DOMAIN key : key[i] = c}

AllOf(key, from, to, class) ==
    from <= to /\ \A k \in from..to : key[k] \in class

NameSplits(key) ==
    LET n == Len(key) - Len(Suffix)
    IN  {sp \in Positions(key, "/") \X Positions(key, "_")
                  \X Positions(key, "_") \X Positions(key, "-") :
            /\ n >= 0
            /\ SubSeq(key, n + 1, Len(key)) = Suffix
            /\ AllOf(key, sp[1] + 1, sp[2] - 1, TopicChars)
            /\ AllOf(key, sp[2] + 1, sp[3] - 1, DigitChars)
            /\ AllOf(key, sp[3] + 1, sp[4] - 1, DigitChars)
            /\ AllOf(key, sp[4] + 1, n, DigitChars)}

\* the number a string of decimal digits writes, read from the left
RECURSIVE DecimalValue(_, _)
DecimalValue(ds, acc) ==
    IF ds = <<>> THEN acc
    ELSE DecimalValue(Tail(ds), acc * 10 + DigitValue[Head(ds)])

\* the record the grammar reads in a key
Embedded(summary, sp) ==
    LET key == summary.Key
    IN  [object_key |-> key,
         topic |-> SubSeq(key, sp[1] + 1, sp[2] - 1),
         partition |-> DecimalValue(SubSeq(key, sp[2] + 1, sp[3] - 1), 0),
         start_offset |-> DecimalValue(SubSeq(key, sp[3] + 1, sp[4] - 1), 0),
         end_offset |->
             DecimalValue(SubSeq(key, sp[4] + 1, Len(key) - Len(Suffix)), 0),
         size |-> summary.Size]

\* C15: for every listed object whose key follows the naming grammar, the
\* grouping holds one record of that key, in the group of the key's topic
\* and partition, and the record carries the topic, the partition, the
\* start offset and the end offset written in the key and the size of the
\* object; topics with underscores, dots and digits are no exception.
C15_ParserRoundTrip ==
    Grouped =>
        \A i \in DOMAIN summaries : \A sp \in NameSplits(summaries[i].Key) :
            LET r == Embedded(summaries[i], sp)
            IN  /\ r.topic \in DOMAIN grouped
                /\ r.partition \in DOMAIN grouped[r.topic]
                /\ \E k \in DOMAIN grouped[r.topic][r.partition] :
                      grouped[r.topic][r.partition][k] = r
                /\ \A q \in GroupedRecords : q.object_key = r.object_key => q = r

\* a key whose topic has an underscore and a dot or a digit, and whose
\* start offset has two digits, was grouped
C15_Witness ==
    /\ Grouped
    /\ \E i \in DOMAIN summaries : \E sp \in NameSplits(summaries[i].Key) :
          LET r == Embedded(summaries[i], sp)
          IN  /\ r \in GroupedRecords
              /\ \E k \in DOMAIN r.topic : r.topic[k] = "_"
              /\ \E k \in DOMAIN r.topic : r.topic[k] \in {".", "7"}
              /\ r.start_offset = 12

\* the records of the batches that main.py:24 makes of the groups
BatchedRecords ==
    LET b == batched_object_summaries(args.size, args.files, grouped)
    IN  UNION {UNION {{Flatten(b[t][p])[i] : i \in DOMAIN Flatten(b[t][p])} :
                         p \in DOMAIN b[t]} : t \in DOMAIN b}

\* C13: a listed object whose key does not follow the naming grammar gives
\* no record: no group and no batch holds a record of its key; the grouping
\* ends without an error and holds the records of the other objects.
C13_NonMatchingDropped ==
    Grouped =>
        \A i \in DOMAIN summaries :
            NameSplits(summaries[i].Key) = {} =>
                \A r \in GroupedRecords \cup BatchedRecords :
                    r.object_key # summaries[i].Key

---------------------------------------------------------------------------
(* Claims about the outcomes under different schedules. *)

\* the outcome the plan and the store's answers give batch b: a batch of
\* one record succeeds, a larger one when the store accepted its coalesce
\* and its delete
ExpectedOutcome(b) ==
    \/ Len(BatchOf(b)) <= 1
    \/ Accepted(b, "coalesce") /\ Accepted(b, "delete")

\* C20: in every run, whatever the number of workers (1..MaxThreads), the
\* kind of pool (threads or processes) and the order in which the tasks
\* take their steps, the outcome of a batch is the one its records and the
\* store's answers to its coalesce and its delete give, and the exit status
\* is the one these outcomes give: two runs of one plan with the same
\* answers end with the same outcomes and the same status.
C20_OutcomesFollowAnswers ==
    /\ \A b \in AllBatches :
          HasOutcome(b) => (OutcomeOf(b) <=> ExpectedOutcome(b))
    /\ pc = "exited" =>
          /\ AllOutcomes
          /\ status = <<IF \A b \in AllBatches : ExpectedOutcome(b)
                        THEN 0 ELSE 2>>

\* two tasks of a pool of processes run at the same time: one has a batch
\* that failed on a rejected delete and is at a later batch, the other is
\* between the coalesce and the delete of a batch
C20_Witness ==
    /\ args.multiprocessor
    /\ Cardinality(Running) = 2
    /\ \E b, o \in AllBatches :
          /\ topic = <<b[1]>> /\ topic = <<o[1]>>
          /\ b[2] \in Running /\ o[2] \in Running /\ b[2] # o[2]
          /\ HasOutcome(b) /\ ~OutcomeOf(b) /\ Rejected(b, "delete")
          /\ AtDelete(o)

===========================================================================
